---- MODULE Spec2Model ----
(***************************************************************************)
(* A model of aiota2: the DataModel constructor (datamodel.py), the        *)
(* response wrapping of AioClient.provide and the cached "heroes" table    *)
(* with its three helpers (client.py).                                     *)
(*                                                                         *)
(* Python values are pairs <<type, payload>>; x[1] is the type of x and     *)
(* x[2] its payload:                                                       *)
(*   "num", "str", "null"   decoded JSON scalars (null is Python's None)   *)
(*   "dict"                 a function from key strings to values          *)
(*   "list"                 a sequence of values                           *)
(*   "DataModel"            the object's attribute dictionary              *)
(*   "DataArray"            a sequence (DataArray subclasses list)         *)
(*   "raise"                the name of the exception that propagates      *)
(*   "unset"                the attribute does not exist on the object     *)
(***************************************************************************)
EXTENDS Integers, Sequences, FiniteSets, Bags, TLC

VARIABLES
    with_models,  \* AioClient.with_models, fixed by the constructor
    heroes,       \* AioClient.heroes: Unset until load_heroes sets it
    pending,      \* the load_heroes calls suspended on their request: a bag of
                  \* records, one per call, of what has happened since it started
                  \*   changed:   the cache has changed
                  \*   overtaken: another load_heroes call has set the cache
    lastAns,      \* decoded response of the latest load that set the cache
    lastLoad,     \* how the latest finished load ended: "none" so far, "failed",
                  \* "ok", or "replaced" when it set a cache that held another
                  \* response
    ret,          \* the helper call that has just returned to its caller, if any
    ans,          \* wrapping runs: the decoded response handed to the wrapper
    retname,      \* wrapping runs: the label (retname / name argument)
    out           \* wrapping runs: what the wrapper produced

vars == <<with_models, heroes, pending, lastAns, lastLoad, ret, ans, retname, out>>

clientVars == <<heroes, pending, lastAns, lastLoad, ret>>
wrapVars == <<ans, retname, out>>

-----------------------------------------------------------------------------
(* Python values *)

Num(n) == <<"num", n>>
Str(s) == <<"str", s>>
None == <<"null", 0>>
Dict(f) == <<"dict", f>>
List(s) == <<"list", s>>
Raise(e) == <<"raise", e>>
Unset == <<"unset", 0>>

\* no helper call has just returned; the wrapper has not run
NotCalled == [op |-> "none", param |-> "", value |-> None, r |-> None]
NotBuilt == [op |-> "none", r |-> None]

IsRaise(x) == x[1] = "raise"

Exceptions == {"AttributeError", "TypeError", "KeyError", "ConstantsError",
               "OpenDotaAPIError", "ClientError"}

\* Python's == on the modelled values (no bool/float, so no cross-type equality)
PyEq(a, b) == a = b

\* The first element of seq that is an exception, or seq itself wrapped by tag
FirstRaiseOr(seq, tag) ==
    LET bad == {i \in 1..Len(seq) : IsRaise(seq[i])}
    IN  IF bad # {}
        THEN seq[CHOOSE i \in bad : \A j \in bad : i <= j]
        ELSE <<tag, seq>>

-----------------------------------------------------------------------------
(* datamodel.py *)

RECURSIVE DataModel(_, _)
DataModel(name, dd) ==
    IF dd[1] # "dict"
    THEN Raise("AttributeError")            \* dd.items() on a non-dict
    ELSE
      LET wrapped(val) ==
              IF val[1] = "dict"
              THEN DataModel("...", val)
              ELSE IF val[1] = "list" /\ val[2] # <<>>
                   THEN IF val[1] = "dict"   \* line 11 tests the list itself
                        THEN Raise("TypeError")   \* map(DataModel, val): dd missing
                        ELSE val
                   ELSE val
          set == [key \in DOMAIN dd[2] |-> wrapped(dd[2][key])]
          bad == {key \in DOMAIN dd[2] : IsRaise(set[key])}
      IN  IF bad # {}
          THEN set[CHOOSE key \in bad : TRUE]
          ELSE <<"DataModel",
                 set @@ ("data_model_name" :> Str(name) @@ "raw_json" :> dd)>>

-----------------------------------------------------------------------------
(* client.py: provide *)

\* The strings of the model that have "error" as a substring
ErrorStrings == {"error"}

\* `"error" in ans`: "yes", "no", or "TypeError" for a non-container
error_in(a) ==
    CASE a[1] = "dict" -> IF "error" \in DOMAIN a[2] THEN "yes" ELSE "no"
      [] a[1] = "list" -> IF \E i \in 1..Len(a[2]) : PyEq(a[2][i], Str("error"))
                         THEN "yes" ELSE "no"
      [] a[1] = "str"  -> IF a[2] \in ErrorStrings THEN "yes" ELSE "no"
      [] OTHER        -> "TypeError"

\* provide from the point the transport hands back `fetched`: the decoded JSON
\* of the response, or the exception raised by session.get / ans.json()
provide(models, name, fetched) ==
    IF IsRaise(fetched) THEN fetched
    ELSE IF error_in(fetched) = "TypeError" THEN Raise("TypeError")
    ELSE IF error_in(fetched) = "yes" THEN Raise("OpenDotaAPIError")
    ELSE IF ~models THEN fetched
    ELSE IF fetched[1] = "dict" THEN DataModel(name, fetched)
    ELSE IF fetched[1] = "list"
         THEN FirstRaiseOr([i \in 1..Len(fetched[2]) |->
                               DataModel(name, fetched[2][i])], "DataArray")
    ELSE None                               \* falls off the end of the function

-----------------------------------------------------------------------------
(* client.py: the heroes cache *)

\* variant: the attribute is reset when the call starts, before the await
load_heroes_call_reset(h) == None

\* load_heroes up to its await: provide(...) is awaited before setattr runs
load_heroes_call(h) == h

\* variant: a repeated load extends the list already held
load_heroes_extend(h, o) ==
    IF IsRaise(o) THEN h
    ELSE IF h[1] \in {"list", "DataArray"} /\ o[1] \in {"list", "DataArray"}
         THEN <<o[1], h[2] \o o[2]>>
         ELSE o

\* variant: a failing load drops the attribute
load_heroes_drop(h, o) == IF IsRaise(o) THEN Unset ELSE o

\* load_heroes once provide has finished with `o`: setattr, unless o propagates
load_heroes(h, o) == IF IsRaise(o) THEN h ELSE o

\* self.heroes inside a helper
self_heroes(h) == IF h[1] = "unset" THEN Raise("AttributeError") ELSE h

\* the keys of a dict as a sequence of str values
RECURSIVE KeySeq(_)
KeySeq(ks) ==
    IF ks = {} THEN <<>>
    ELSE LET k == CHOOSE x \in ks : TRUE IN <<Str(k)>> \o KeySeq(ks \ {k})

\* iterating a value: the list of its elements in order, or the exception
\* (a str cache, which iterates its characters, is outside the model's responses)
Iter(h) ==
    CASE IsRaise(h)                      -> h
      [] h[1] \in {"list", "DataArray"}   -> List(h[2])
      [] h[1] = "dict"                    -> List(KeySeq(DOMAIN h[2]))
      [] h[1] \in {"num", "null", "DataModel"} -> Raise("TypeError")

\* x.name
getattr(x, name) ==
    IF x[1] = "DataModel" /\ name \in DOMAIN x[2] THEN x[2][name]
    ELSE Raise("AttributeError")

\* x[key] for a string key
getitem(x, key) ==
    IF IsRaise(x) THEN x
    ELSE IF x[1] = "dict"
         THEN IF key \in DOMAIN x[2] THEN x[2][key] ELSE Raise("KeyError")
         ELSE Raise("TypeError")

\* list(filter(lambda x: <x's param> == value, self.heroes))
filter_param(models, h, param, value) ==
    LET it == Iter(self_heroes(h))
        field(x) == IF models THEN getitem(getattr(x, "raw_json"), param)
                              ELSE getitem(x, param)
    IN  IF IsRaise(it) THEN it
        ELSE LET probe == FirstRaiseOr([i \in 1..Len(it[2]) |-> field(it[2][i])], "list")
             IN  IF IsRaise(probe) THEN probe
                 ELSE List(SelectSeq(it[2], LAMBDA x : PyEq(field(x), value)))

\* variant: a missing attribute reads as an empty table
with_hero_attr_default(h, r) ==
    IF h[1] = "unset" THEN List(<<>>)
    ELSE IF PyEq(r, Raise("AttributeError")) THEN Raise("ConstantsError")
    ELSE r

\* the decorator: func's result `r`, computed on heroes `h`
with_hero_attr(h, r) ==
    IF h[1] = "unset" THEN Raise("ConstantsError")
    ELSE IF PyEq(r, Raise("AttributeError")) THEN Raise("ConstantsError")
    ELSE r

get_heroes_by_param(models, h, param, value) ==
    with_hero_attr(h, filter_param(models, h, param, value))

get_hero_by_param(models, h, param, value) ==
    LET ft == filter_param(models, h, param, value)
    IN  with_hero_attr(h, IF IsRaise(ft) THEN ft
                          ELSE IF ft[2] # <<>> THEN ft[2][1] ELSE None)

get_heroes_names(models, h) ==
    LET it == Iter(self_heroes(h))
        name(x) == IF models THEN getattr(x, "localized_name")
                             ELSE getitem(x, "localized_name")
    IN  with_hero_attr(h, IF IsRaise(it) THEN it
                          ELSE FirstRaiseOr([i \in 1..Len(it[2]) |-> name(it[2][i])], "list"))

-----------------------------------------------------------------------------
(* The client: loads of the heroes table and helper calls *)

MaxHeroes == 2      \* longest hero list a response carries
MaxPending == 2     \* load_heroes calls that may be in flight at once

Axe == Dict("id" :> Num(1) @@ "localized_name" :> Str("Axe"))
Bane == Dict("id" :> Num(2) @@ "localized_name" :> Str("Bane"))
Nameless == Dict("id" :> Num(1))
HeroRecords == {Axe, Bane, Nameless}

SeqsUpTo(S, n) == UNION {[1..k -> S] : k \in 0..n}

\* what the transport can hand back for /api/heroes
Fetched ==
    {List(s) : s \in SeqsUpTo(HeroRecords, MaxHeroes)}
        \cup {Dict("error" :> Str("rate limit exceeded")),  \* API-reported error
              None,                                          \* a JSON null
              List(<<Num(1)>>),                              \* an array of scalars
              Axe,                                           \* a single object
              Raise("ClientError")}                          \* session.get / json() fails

Params == {"id", "localized_name", "name"}
Values == {Num(1), Str("Axe")}

InitWrap == /\ ans = None
            /\ retname = "Hero"
            /\ out = NotBuilt

InitClient == /\ heroes = Unset
              /\ pending = EmptyBag
              /\ lastAns = Unset
              /\ lastLoad = "none"
              /\ ret = NotCalled

Init == /\ with_models \in BOOLEAN
        /\ InitClient
        /\ InitWrap

\* a suspended call l after a step that changed the cache (ch) and in which
\* another call set the cache (ov)
Since(l, ch, ov) == [changed |-> l.changed \/ ch, overtaken |-> l.overtaken \/ ov]

RECURSIVE MarkAll(_, _, _, _)
MarkAll(calls, B, ch, ov) ==
    IF calls = {} THEN EmptyBag
    ELSE LET l == CHOOSE x \in calls : TRUE
         IN  [x \in {Since(l, ch, ov)} |-> CopiesIn(l, B)]
                 (+) MarkAll(calls \ {l}, B, ch, ov)

Mark(B, ch, ov) == MarkAll(BagToSet(B), B, ch, ov)

\* a task calls load_heroes and is suspended on the request
StartLoad ==
    /\ ret = NotCalled
    /\ BagCardinality(pending) < MaxPending
    /\ heroes' = load_heroes_call(heroes)
    /\ pending' = Mark(pending, heroes' # heroes, FALSE)
                      (+) SetToBag({[changed |-> heroes' # heroes, overtaken |-> FALSE]})
    /\ UNCHANGED <<with_models, lastAns, lastLoad, ret, wrapVars>>

\* the request of the suspended call l comes back with f; load_heroes runs to
\* its end
FinishLoad(l, f) ==
    /\ ret = NotCalled
    /\ BagIn(l, pending)
    /\ LET o == provide(with_models, "Hero", f)
       IN  /\ heroes' = load_heroes(heroes, o)
           /\ lastLoad' = IF IsRaise(o) THEN "failed"
                          ELSE IF lastAns # Unset /\ lastAns # f THEN "replaced"
                          ELSE "ok"
           /\ lastAns' = IF IsRaise(o) THEN lastAns ELSE f
           /\ pending' = Mark(pending (-) SetToBag({l}), heroes' # heroes, ~IsRaise(o))
    /\ UNCHANGED <<with_models, ret, wrapVars>>

Returned(op, param, value, r) == [op |-> op, param |-> param, value |-> value, r |-> r]

CallHeroesByParam(param, value) ==
    /\ ret = NotCalled
    /\ ret' = Returned("get_heroes_by_param", param, value,
                       get_heroes_by_param(with_models, heroes, param, value))
    /\ UNCHANGED <<with_models, heroes, pending, lastAns, lastLoad, wrapVars>>

CallHeroByParam(param, value) ==
    /\ ret = NotCalled
    /\ ret' = Returned("get_hero_by_param", param, value,
                       get_hero_by_param(with_models, heroes, param, value))
    /\ UNCHANGED <<with_models, heroes, pending, lastAns, lastLoad, wrapVars>>

CallHeroesNames ==
    /\ ret = NotCalled
    /\ ret' = Returned("get_heroes_names", "", None,
                       get_heroes_names(with_models, heroes))
    /\ UNCHANGED <<with_models, heroes, pending, lastAns, lastLoad, wrapVars>>

\* the caller takes what the (synchronous) helper returned or raised and goes on
Continue ==
    /\ ret # NotCalled
    /\ ret' = NotCalled
    /\ UNCHANGED <<with_models, heroes, pending, lastAns, lastLoad, wrapVars>>

Next == \/ StartLoad
        \/ \E l \in BagToSet(pending), f \in Fetched : FinishLoad(l, f)
        \/ \E p \in Params, x \in Values : CallHeroesByParam(p, x)
        \/ \E p \in Params, x \in Values : CallHeroByParam(p, x)
        \/ CallHeroesNames
        \/ Continue

Spec == Init /\ [][Next]_vars

-----------------------------------------------------------------------------
(* Wrapping runs: one decoded response, wrapped once *)

MaxLen == 2         \* longest array inside a decoded response
MaxKeys == 2        \* most keys of a decoded top-level object

Keys == {"id", "raw_json", "data_model_name"}
Labels == {"Hero", "Player"}
Scalars == {Num(1), Str("Axe"), None}

DictsOver(ks, n, vals) ==
    {Dict(f) : f \in UNION {[K -> vals] : K \in {K \in SUBSET ks : Cardinality(K) <= n}}}

InnerDicts == DictsOver({"id", "raw_json"}, 1, Scalars)
Lists == {List(s) : s \in SeqsUpTo(Scalars \cup InnerDicts, MaxLen)}
FieldValues == Scalars \cup InnerDicts \cup Lists
Objects == DictsOver(Keys, MaxKeys, FieldValues)
JsonValues == Scalars \cup Lists \cup Objects

InitW == /\ with_models \in BOOLEAN
         /\ ans \in JsonValues
         /\ retname \in Labels
         /\ out = NotBuilt
         /\ InitClient

Produced(op, r) == [op |-> op, r |-> r]

\* the body of provide runs on the decoded response
Provide ==
    /\ out = NotBuilt
    /\ out' = Produced("provide", provide(with_models, retname, ans))
    /\ UNCHANGED <<with_models, ans, retname, clientVars>>

\* DataModel(retname, ans) is constructed from a decoded object
Construct ==
    /\ out = NotBuilt
    /\ ans[1] = "dict"
    /\ out' = Produced("DataModel", DataModel(retname, ans))
    /\ UNCHANGED <<with_models, ans, retname, clientVars>>

NextW == Provide \/ Construct

SpecWrap == InitW /\ [][NextW]_vars

-----------------------------------------------------------------------------
(* Properties of the heroes cache, checked under Spec *)

Called(op) == ret # NotCalled /\ ret.op = op
Loaded == heroes # Unset
HoldsRecords == heroes[1] \in {"list", "DataArray"}

\* record x has a field named f whose value equals val
Matches(x, f, val) ==
    /\ x[1] \in {"dict", "DataModel"}
    /\ f \in DOMAIN x[2]
    /\ PyEq(x[2][f], val)

Matching(f, val) == SelectSeq(heroes[2], LAMBDA x : Matches(x, f, val))

\* C1: while no load_heroes call has completed successfully, every helper call
\* (get_heroes_by_param, get_hero_by_param, get_heroes_names, any arguments)
\* raises ConstantsError; it returns neither None nor an empty result.
C1_NotLoadedSignalled ==
    (ret # NotCalled /\ lastAns = Unset) => PyEq(ret.r, Raise("ConstantsError"))

C1_Witness ==
    /\ Called("get_hero_by_param")
    /\ lastAns = Unset
    /\ lastLoad = "failed"
    /\ pending # EmptyBag

\* C2: once a load has succeeded, the cache is exactly the wrapped response of
\* the latest successful load (replaced, not merged), and every record a helper
\* returns is a record of that response.
C2_FullReplace ==
    lastAns # Unset =>
        /\ PyEq(heroes, provide(with_models, "Hero", lastAns))
        /\ LET n == IF lastAns[1] = "list" THEN Len(lastAns[2]) ELSE 0
               latest == {IF with_models THEN DataModel("Hero", lastAns[2][i])
                                         ELSE lastAns[2][i] : i \in 1..n}
               seen == IF Called("get_heroes_by_param") /\ ret.r[1] = "list"
                       THEN {ret.r[2][i] : i \in 1..Len(ret.r[2])}
                       ELSE IF Called("get_hero_by_param")
                               /\ ret.r[1] \in {"dict", "DataModel"}
                       THEN {ret.r}
                       ELSE {}
           IN  seen \subseteq latest

C2_Witness ==
    /\ lastLoad = "replaced"
    /\ Called("get_heroes_by_param")
    /\ ret.r[1] = "list"
    /\ ret.r[2] # <<>>

\* C3: with the cache loaded, get_heroes_by_param(field, value) returns, for
\* every field name and value, exactly the cached records whose field equals
\* the value, in their original order, and an empty list (no error) when none
\* matches, in typed and in dynamic mode.
C3_FilterAll ==
    (Called("get_heroes_by_param") /\ HoldsRecords) =>
        PyEq(ret.r, List(Matching(ret.param, ret.value)))

\* C4: with the cache loaded, get_hero_by_param(field, value) returns the first
\* cached record whose field equals the value, and None when none matches.
C4_FilterFirst ==
    (Called("get_hero_by_param") /\ HoldsRecords) =>
        LET m == Matching(ret.param, ret.value)
        IN  PyEq(ret.r, IF m # <<>> THEN m[1] ELSE None)

\* C8: a load that fails leaves the cache as it was, and no step takes the
\* cache from loaded back to unloaded.
C8_FailedLoadKeepsCache ==
    [][ /\ (BagCardinality(pending') < BagCardinality(pending) /\ lastLoad' = "failed")
             => heroes' = heroes
        /\ Loaded => heroes' # Unset ]_vars

C8_Witness ==
    /\ lastLoad = "failed"
    /\ Loaded
    /\ lastAns # Unset

\* C9: once the cache is set, no helper call raises ConstantsError, whatever
\* the arguments, the mode and the cached records.
C9_NoSpuriousNotLoaded ==
    (ret # NotCalled /\ Loaded) => ~PyEq(ret.r, Raise("ConstantsError"))

\* the whole wrapped responses a load can store, per mode
TypedCaches == {provide(TRUE, "Hero", f) : f \in Fetched} \ {Raise(e) : e \in Exceptions}
DynamicCaches == {provide(FALSE, "Hero", f) : f \in Fetched} \ {Raise(e) : e \in Exceptions}

\* C10 as claimed: a helper called while a load is suspended observes the
\* cache as it was before that load started.
C10_SeesCacheFromBeforeLoad ==
    \A l \in BagToSet(pending) : ret # NotCalled => ~l.changed

\* C10 amended: while a load is suspended the cache is as it was before that
\* load started unless another load has completed successfully since; the cache
\* is always either absent or the whole wrapped response of one load.
C10_SeesCacheFromBeforeOrOtherLoad ==
    /\ \A l \in BagToSet(pending) : ~l.overtaken => ~l.changed
    /\ heroes \in {Unset} \cup (IF with_models THEN TypedCaches ELSE DynamicCaches)

C10_Witness ==
    /\ Called("get_heroes_names")
    /\ Loaded
    /\ ret.r[1] = "list"
    /\ \E l \in BagToSet(pending) : ~l.overtaken

-----------------------------------------------------------------------------
(* Properties of the wrapping, checked under SpecWrap *)

Built(op) == out # NotBuilt /\ out.op = op

IsObjectArray(val) ==
    /\ val[1] = "list"
    /\ val[2] # <<>>
    /\ \A i \in 1..Len(val[2]) : val[2][i][1] = "dict"

\* C5: the DataModel of an object with a non-empty array of objects at key k
\* has at attribute k a sequence of DataModels, one per element, in order.
C5_ObjectArrayWrapped ==
    (Built("DataModel") /\ out.r[1] = "DataModel") =>
        \A k \in DOMAIN ans[2] :
            IsObjectArray(ans[2][k]) =>
                LET w == out.r[2][k]
                IN  /\ w[1] \in {"list", "DataArray"}
                    /\ Len(w[2]) = Len(ans[2][k][2])
                    /\ \A i \in 1..Len(w[2]) : w[2][i][1] = "DataModel"

\* C6: in typed mode, wrapping any decoded JSON value (object, array of
\* objects, array of scalars, scalar, null) yields a result and raises nothing.
C6_WrapTotal ==
    (Built("provide") /\ with_models) => ~IsRaise(out.r)

\* C7: the DataModel built from (label, O) has data_model_name = label and
\* raw_json = O, whatever the keys of O.
C7_KindAndRawKept ==
    Built("DataModel") =>
        /\ out.r[1] = "DataModel"
        /\ PyEq(out.r[2]["data_model_name"], Str(retname))
        /\ PyEq(out.r[2]["raw_json"], ans)

====
